---- MODULE Spec2Model ----
(***************************************************************************)
(* Model of hmc/lrhmc.py: class LRHMC (fit / postprocess / logloss).       *)
(*                                                                         *)
(* Numbers are exact rationals <<numerator, denominator>> in lowest terms  *)
(* with a positive denominator; numpy's float arithmetic is modelled by    *)
(* exact arithmetic on them (rounding is not modelled).  The external      *)
(* sampler, its gradient evaluator and sklearn's log_loss are modelled by  *)
(* what the code relies on: the sampler returns n_iters draws, the         *)
(* gradient is a function of the draw, and log_loss of clipped hard 0/1    *)
(* predictions is a fixed penalty per wrong row and per right row.         *)
(***************************************************************************)
EXTENDS Integers, Sequences, FiniteSets, TLC

d == 2            \* self.d: number of parameter dimensions (columns of X)
test_size == 2    \* self.test_size: rows of the held-out set

MaxIters == 3     \* largest n_iters passed to fit
MaxCalls == 2     \* consecutive postprocess calls that are followed

None == <<>>       \* Python None / no value
NaN == <<>>        \* an array of nan (never read by the code modelled)

Points == {<<0, 0>>, <<1, 0>>, <<0, 1>>}     \* draws the sampler returns
GradRows == {<<0, 0>>, <<1, 0>>, <<0, 1>>}   \* values of grad_log_prob
XTestRows == {<<1, 0>>, <<1, -1>>}           \* held-out covariate rows

\* A longer chain for the identity-covariance scenario: the sampler returns
\* ScenarioIters of these points, in this order, and grad_log_prob flips
\* the sign of each coordinate or keeps it.
ScenarioIters == 5
ScenarioPoints == << <<1, 1>>, <<-1, 1>>, <<1, -1>>, <<-1, -1>>, <<0, 0>>,
                     <<1, 0>>, <<0, 1>> >>
Signs == {-1, 1}
Labels == {0, 1}

(***************************************************************************)
(* Exact arithmetic standing in for numpy floats                           *)
(***************************************************************************)
Abs(x) == IF x < 0 THEN -x ELSE x

RECURSIVE GCD(_, _)
GCD(a, b) == IF b = 0 THEN a ELSE GCD(b, a % b)

Reduce(n, m, g) == <<n \div g, m \div g>>

Rat(n, m) ==
  IF m < 0 THEN Reduce(-n, -m, GCD(Abs(n), Abs(m)))
  ELSE Reduce(n, m, GCD(Abs(n), Abs(m)))

RZero == <<0, 1>>
ROfInt(i) == <<i, 1>>
RAdd(p, q) == Rat(p[1] * q[2] + q[1] * p[2], p[2] * q[2])
RNeg(p) == <<-p[1], p[2]>>
RSub(p, q) == RAdd(p, RNeg(q))
RMul(p, q) == Rat(p[1] * q[1], p[2] * q[2])
RDiv(p, q) == Rat(p[1] * q[2], p[2] * q[1])
RGeqZero(p) == p[1] >= 0

Zeros(k) == [i \in 1..k |-> RZero]
ZerosM(r, c) == [i \in 1..r |-> Zeros(c)]
VAdd(u, v) == [k \in 1..Len(u) |-> RAdd(u[k], v[k])]
VSub(u, v) == [k \in 1..Len(u) |-> RSub(u[k], v[k])]
VScale(c, v) == [k \in 1..Len(v) |-> RMul(c, v[k])]
VNeg(v) == [k \in 1..Len(v) |-> RNeg(v[k])]

RECURSIVE DotUpTo(_, _, _)
DotUpTo(u, v, k) ==
  IF k = 0 THEN RZero ELSE RAdd(DotUpTo(u, v, k - 1), RMul(u[k], v[k]))

Dot(u, v) == DotUpTo(u, v, Len(u))
MatVec(M, v) == [k \in 1..Len(M) |-> Dot(M[k], v)]
ToRatV(v) == [k \in 1..Len(v) |-> ROfInt(v[k])]
ToRatM(M) == [i \in 1..Len(M) |-> [k \in 1..Len(M[i]) |-> ROfInt(M[i][k])]]

(***************************************************************************)
(* numpy helpers used by postprocess                                       *)
(***************************************************************************)
RECURSIVE ColSum(_, _, _)
ColSum(M, k, i) ==
  IF i = 0 THEN RZero ELSE RAdd(ColSum(M, k, i - 1), M[i][k])

\* np.mean(M, axis = 0): mean over all rows of M
Mean0(M) == [k \in 1..d |-> RDiv(ColSum(M, k, Len(M)), ROfInt(Len(M)))]

RECURSIVE DevProd(_, _, _, _, _)
DevProd(M, mu, k, l, i) ==
  IF i = 0 THEN RZero
  ELSE RAdd(DevProd(M, mu, k, l, i - 1),
            RMul(RSub(M[i][k], mu[k]), RSub(M[i][l], mu[l])))

\* np.cov(M, rowvar = 0): unbiased covariance over all rows; one observation
\* leaves zero degrees of freedom and numpy returns nan
CovAbout(M, mu) ==
  [k \in 1..d |-> [l \in 1..d |->
     RDiv(DevProd(M, mu, k, l, Len(M)), ROfInt(Len(M) - 1))]]

NpCov(M) == IF Len(M) <= 1 THEN NaN ELSE CovAbout(M, Mean0(M))

Det(V) == RSub(RMul(V[1][1], V[2][2]), RMul(V[1][2], V[2][1]))

\* the inverse of a matrix of determinant dt # 0
Adjugate(V, dt) ==
  << <<RDiv(V[2][2], dt), RDiv(RNeg(V[1][2]), dt)>>,
     <<RDiv(RNeg(V[2][1]), dt), RDiv(V[1][1], dt)>> >>

InvOfDet(V, dt) ==
  IF dt = RZero THEN [status |-> "LinAlgError", M |-> None]
  ELSE [status |-> "ok", M |-> Adjugate(V, dt)]

InvNoCheck(V) ==
  IF V = NaN THEN [status |-> "ok", M |-> NaN]
  ELSE IF Det(V) = RZero THEN [status |-> "ok", M |-> ZerosM(d, d)]
  ELSE InvOfDet(V, Det(V))

\* np.linalg.inv: raises LinAlgError("Singular matrix") on a singular matrix
Inv(V) ==
  IF V = NaN THEN [status |-> "ok", M |-> NaN]
  ELSE InvOfDet(V, Det(V))

(***************************************************************************)
(* postprocess: one pass of the loop over j (lines 106-113)                *)
(***************************************************************************)
CovFactorBiased(n) == IF n = 0 THEN None ELSE RDiv(ROfInt(1), ROfInt(n))

\* 1 / float(self.n_iters - 1); None stands for ZeroDivisionError
CovFactor(n) == IF n - 1 = 0 THEN None ELSE RDiv(ROfInt(1), ROfInt(n - 1))

InitCovStale(cc) == cc

\* current_cov = np.zeros(self.d) at the start of every pass
InitCov(cc) == Zeros(d)

RECURSIVE AccCov(_, _, _, _, _, _, _, _)
\* the loop of lines 108-110, after i iterations
AccCov(S, G, sm, gm, f, j, cc0, i) ==
  IF i = 0 THEN cc0
  ELSE VAdd(AccCov(S, G, sm, gm, f, j, cc0, i - 1),
            VScale(RMul(f, RSub(S[i][j], sm[j])), VSub(G[i], gm)))

\* the loop of lines 112-113: column j of out_sample
WriteCol(out, S, G, a, j, n) ==
  [i \in 1..Len(out) |->
     IF i <= n THEN [out[i] EXCEPT ![j] = RAdd(S[i][j], Dot(a, G[i]))]
     ELSE out[i]]

\* st = [status, out, a, current_cov, coeffs]: the locals of postprocess.
\* Lines 112-113 of pass j, with a computed
Adjust(j, st, S, G, n, cc, a) ==
  [status |-> "ok",
   out |-> WriteCol(st.out, S, G, a, j, n),
   a |-> a,
   current_cov |-> cc,
   coeffs |-> [st.coeffs EXCEPT ![j] = a]]

\* line 111 of pass j, with current_cov accumulated and inv evaluated
Solve(j, st, S, G, n, cc, iv) ==
  IF iv.status # "ok"
  THEN [st EXCEPT !.status = iv.status, !.current_cov = cc]
  ELSE Adjust(j, st, S, G, n, cc, VNeg(MatVec(iv.M, cc)))

\* one pass of the loop over j
Pass(j, st, S, G, n, sm, gm, V) ==
  IF st.status # "ok" THEN st
  ELSE IF CovFactor(n) = None THEN [st EXCEPT !.status = "ZeroDivisionError"]
  ELSE Solve(j, st, S, G, n,
             AccCov(S, G, sm, gm, CovFactor(n), j, InitCov(st.current_cov), n),
             Inv(V))

RECURSIVE RunPasses(_, _, _, _, _, _, _, _)
\* the passes run in the given order of dimensions
RunPasses(order, st, S, G, n, sm, gm, V) ==
  IF order = <<>> THEN st
  ELSE RunPasses(Tail(order), Pass(Head(order), st, S, G, n, sm, gm, V),
                 S, G, n, sm, gm, V)

InitOutLong(S) == ZerosM(Len(S) + 1, d)

\* out_sample = np.zeros(self.sample.shape)
InitOut(S) == ZerosM(Len(S), d)

\* locals of postprocess before the loop (lines 101-103)
InitLocals(S) ==
  [status |-> "ok", out |-> InitOut(S), a |-> Zeros(d),
   current_cov |-> Zeros(d), coeffs |-> [j \in 1..d |-> None]]

\* for j in range(self.d)
SeqOrder == [j \in 1..d |-> j]

(***************************************************************************)
(* logloss (lines 128-136)                                                 *)
(***************************************************************************)
PredictStrict(beta, x) ==
  IF Dot(beta, ToRatV(x)) # RZero /\ RGeqZero(Dot(beta, ToRatV(x))) THEN 1 ELSE 0

\* int( np.dot( beta, x ) >= 0.0 )
Predict(beta, x) == IF RGeqZero(Dot(beta, ToRatV(x))) THEN 1 ELSE 0

\* y_pred for one draw
YPred(beta, X) == [i \in 1..test_size |-> Predict(beta, X[i])]

\* sklearn log_loss of hard 0/1 predictions clipped to [eps, 1 - eps]:
\* the mean of -log(eps) over the wrong rows and -log(1 - eps) over the
\* right rows.  A loss is the pair <<cw, cr>> of the rational coefficients
\* of these two penalties.
LossOfWrong(wrong, rows) == <<Rat(wrong, rows), Rat(rows - wrong, rows)>>

SkLogLoss(y, yp) ==
  LossOfWrong(Cardinality({i \in 1..Len(y) : yp[i] # y[i]}), Len(y))

LossZero == <<RZero, RZero>>
LossAdd(p, q) == <<RAdd(p[1], q[1]), RAdd(p[2], q[2])>>
LossDiv(p, n) == <<RDiv(p[1], ROfInt(n)), RDiv(p[2], ROfInt(n))>>

RECURSIVE LogLossUpTo(_, _, _, _, _)
\* the accumulator after m iterations of the loop over draws
LogLossUpTo(smp, n, X, y, m) ==
  IF m = 0 THEN LossZero
  ELSE LossAdd(LogLossUpTo(smp, n, X, y, m - 1),
               LossDiv(SkLogLoss(y, YPred(smp[m], X)), n))

\* logloss(sample): indexing a draw the sample does not hold raises IndexError
LogLoss(smp, n, X, y) ==
  IF n > Len(smp) THEN [status |-> "IndexError", value |-> None]
  ELSE [status |-> "ok", value |-> LogLossUpTo(smp, n, X, y, n)]

(***************************************************************************)
(* postprocess as a whole (lines 96-118)                                   *)
(***************************************************************************)
\* lines 116-117 once the loop has ended in st; an exception leaves nothing
Finish(st, S, n, X, y) ==
  IF st.status # "ok"
  THEN [status |-> st.status, out |-> None, coeffs |-> None,
        oldll |-> None, newll |-> None]
  ELSE [status |-> "ok", out |-> st.out, coeffs |-> st.coeffs,
        oldll |-> LogLoss(S, n, X, y).value,
        newll |-> LogLoss(st.out, n, X, y).value]

PostprocessResult(S, G, n, X, y) ==
  Finish(RunPasses(SeqOrder, InitLocals(S), S, G, n,
                   Mean0(S), Mean0(G), NpCov(G)),
         S, n, X, y)

SampleReplaced(S, res) == IF res.status = "ok" THEN res.out ELSE S

\* self.sample after postprocess: the method never assigns it
SampleAfterPostprocess(S, res) == S

(***************************************************************************)
(* The object and its methods                                              *)
(***************************************************************************)
VARIABLES
  X_test,          \* self.X_test
  y_test,          \* self.y_test
  fitted,          \* self.fitted (None or the sampler's fit object)
  sample,          \* self.sample
  logpost_sample,  \* self.logpost_sample
  n_iters,         \* self.n_iters (0 stands for None)
  lastCall,        \* the method that ran last
  status,          \* "ok" or the exception the last call raised
  out_sample,      \* out_sample of the last postprocess
  coeffs,          \* the vector a of each pass of the last postprocess
  oldll,           \* the two values postprocess printed
  newll,
  ppRuns,          \* postprocess calls in a row
  llValue,         \* return value of the last direct logloss call
  llRows           \* rows of the sample passed to that call

vars == <<X_test, y_test, fitted, sample, logpost_sample, n_iters, lastCall,
          status, out_sample, coeffs, oldll, newll, ppRuns, llValue, llRows>>

\* held-out sets the constructor is given: distinct covariate rows, both
\* labels in y_test (rows listed with a positive label first)
HeldOutX ==
  {X \in [1..test_size -> XTestRows] :
     \A i, k \in 1..test_size : i # k => X[i] # X[k]}
HeldOutY == {y \in [1..test_size -> Labels] : y[1] = 1 /\ \E i \in 1..test_size : y[i] = 0}

\* __init__ (lines 29-56)
Init ==
  /\ X_test \in HeldOutX
  /\ y_test \in HeldOutY
  /\ fitted = None
  /\ sample = None
  /\ logpost_sample = None
  /\ n_iters = 0
  /\ lastCall = "init"
  /\ status = "ok"
  /\ out_sample = None
  /\ coeffs = None
  /\ oldll = None
  /\ newll = None
  /\ ppRuns = 0
  /\ llValue = None
  /\ llRows = 0

\* fit(n_iters) (lines 71-79): the sampler runs 2 * n_iters iterations of one
\* chain and keeps the n_iters draws after warmup; grad_log_prob, a function
\* of the point, is then evaluated at each draw.  A second fit overwrites
\* every field the first one set, so one fit per object is followed.
Fit ==
  /\ fitted = None
  /\ \E n \in 1..MaxIters :
       \E S \in [1..n -> Points], grad_log_prob \in [Points -> GradRows] :
          /\ n_iters' = n
          /\ fitted' = <<"StanFit">>
          /\ sample' = ToRatM(S)
          /\ logpost_sample' = ToRatM([i \in 1..n |-> grad_log_prob[S[i]]])
  /\ lastCall' = "fit"
  /\ status' = "ok"
  /\ UNCHANGED <<X_test, y_test, out_sample, coeffs, oldll, newll, ppRuns,
                 llValue, llRows>>

\* fit(ScenarioIters) on a posterior whose draws are ScenarioPoints
FitScenario ==
  /\ fitted = None
  /\ \E f \in [1..ScenarioIters -> 1..Len(ScenarioPoints)], sg \in [1..d -> Signs] :
        /\ \A i \in 1..(ScenarioIters - 1) : f[i] < f[i + 1]
        /\ n_iters' = ScenarioIters
        /\ fitted' = <<"StanFit">>
        /\ sample' = ToRatM([i \in 1..ScenarioIters |-> ScenarioPoints[f[i]]])
        /\ logpost_sample' =
             ToRatM([i \in 1..ScenarioIters |->
                       [k \in 1..d |-> sg[k] * ScenarioPoints[f[i]][k]]])
  /\ lastCall' = "fit"
  /\ status' = "ok"
  /\ UNCHANGED <<X_test, y_test, out_sample, coeffs, oldll, newll, ppRuns,
                 llValue, llRows>>

\* what a postprocess call that computed res leaves behind
PostprocessEffect(res) ==
  /\ status' = res.status
  /\ out_sample' = res.out
  /\ coeffs' = res.coeffs
  /\ oldll' = res.oldll
  /\ newll' = res.newll
  /\ sample' = SampleAfterPostprocess(sample, res)

\* postprocess() (lines 96-118)
Postprocess ==
  /\ fitted # None
  /\ ppRuns < MaxCalls
  /\ PostprocessEffect(PostprocessResult(sample, logpost_sample, n_iters,
                                         X_test, y_test))
  /\ lastCall' = "postprocess"
  /\ ppRuns' = ppRuns + 1
  /\ llValue' = None
  /\ llRows' = 0
  /\ UNCHANGED <<X_test, y_test, fitted, logpost_sample, n_iters>>

\* samples a caller passes to logloss: the chain, the adjusted chain, the
\* chain with one more draw, the chain with one draw fewer
LoglossArgs ==
  {sample, Append(sample, sample[1]), SubSeq(sample, 1, Len(sample) - 1)}
    \cup (IF out_sample # None THEN {out_sample} ELSE {})

\* what a logloss call that returned or raised res leaves behind
LoglossEffect(res) ==
  /\ status' = res.status
  /\ llValue' = res.value

\* logloss(sample) (lines 128-136) called directly
Logloss ==
  /\ fitted # None
  /\ \E arg \in LoglossArgs :
       /\ LoglossEffect(LogLoss(arg, n_iters, X_test, y_test))
       /\ llRows' = Len(arg)
  /\ lastCall' = "logloss"
  /\ out_sample' = None
  /\ coeffs' = None
  /\ oldll' = None
  /\ newll' = None
  /\ ppRuns' = 0
  /\ UNCHANGED <<X_test, y_test, fitted, sample, logpost_sample, n_iters>>

Next == Fit \/ Postprocess \/ Logloss

Spec == Init /\ [][Next]_vars

NextScenario == Next \/ FitScenario

\* the same object, the sampler also returning the scenario chains
SpecScenario == Init /\ [][NextScenario]_vars

(***************************************************************************)
(* Properties                                                              *)
(***************************************************************************)
RLess(p, q) == p[1] * q[2] < q[1] * p[2]
PostprocessDone == lastCall = "postprocess"
PostprocessOk == lastCall = "postprocess" /\ status = "ok"
AllZero(M) == \A i \in 1..Len(M) : \A k \in 1..Len(M[i]) : M[i][k] = RZero
ConstantColumn(M, k) == \A i \in 1..Len(M) : M[i][k] = M[1][k]
Col(M, k) == [i \in 1..Len(M) |-> M[i][k]]

RECURSIVE SumSeq(_, _)
SumSeq(x, i) == IF i = 0 THEN RZero ELSE RAdd(SumSeq(x, i - 1), x[i])

\* unbiased sample covariance of two columns of equal length n >= 2:
\* (n * sum(x*y) - sum(x) * sum(y)) / (n * (n - 1))
UCovOf(x, y, xy, n) ==
  RDiv(RSub(RMul(ROfInt(n), SumSeq(xy, n)), RMul(SumSeq(x, n), SumSeq(y, n))),
       ROfInt(n * (n - 1)))

UCov(x, y) == UCovOf(x, y, [i \in 1..Len(x) |-> RMul(x[i], y[i])], Len(x))

VarGrad == [k \in 1..d |-> [l \in 1..d |->
              UCov(Col(logpost_sample, k), Col(logpost_sample, l))]]
CrossCov(j) == [k \in 1..d |-> UCov(Col(sample, j), Col(logpost_sample, k))]
Identity == [k \in 1..d |-> [l \in 1..d |-> IF k = l THEN ROfInt(1) ELSE RZero]]
Unit(j) == [k \in 1..d |-> IF k = j THEN ROfInt(1) ELSE RZero]

C2_SampleHoldsAdjusted == PostprocessOk => sample = out_sample

\* C3 (as claimed): with an all-zero gradient sample the adjustment
\* completes and the adjusted sample equals the original sample.
C3_ZeroGradientKeepsSample ==
  (PostprocessDone /\ AllZero(logpost_sample)) =>
     (status = "ok" /\ out_sample = sample)

\* C3 (amended): with an all-zero gradient sample postprocess does not
\* complete: it raises the singular-matrix error (division by zero when
\* n_iters = 1) and produces no adjusted sample and no log-loss values.
C3_ZeroGradientFails ==
  (PostprocessDone /\ AllZero(logpost_sample)) =>
     /\ status = (IF n_iters >= 2 THEN "LinAlgError" ELSE "ZeroDivisionError")
     /\ out_sample = None
     /\ oldll = None
     /\ newll = None

C3_Witness ==
  /\ PostprocessDone
  /\ AllZero(logpost_sample)
  /\ ~AllZero(sample)
  /\ n_iters >= 2
  /\ status = "LinAlgError"

C5_DrawCountChecked ==
  lastCall = "logloss" =>
     /\ llRows = n_iters => status = "ok"
     /\ llRows # n_iters => status # "ok"

\* misclassified (draw, row) pairs among the first n draws of smp, row i
\* being predicted 1 iff dot(draw, row i) >= 0
Misclassified(smp, n) ==
  {mi \in (1..n) \X (1..test_size) :
     (Dot(smp[mi[1]], ToRatV(X_test[mi[2]]))[1] >= 0) # (y_test[mi[2]] = 1)}

\* the loss with w of the n * test_size pairs wrong
LossOfCount(w, n) ==
  <<Rat(w, n * test_size), Rat(n * test_size - w, n * test_size)>>

ExpectedLoss(smp, n) == LossOfCount(Cardinality(Misclassified(smp, n)), n)

\* p is a smaller loss than q: the same total weight, less of it on the
\* penalty of a wrong row
LossLess(p, q) == RAdd(p[1], p[2]) = RAdd(q[1], q[2]) /\ RLess(p[1], q[1])

\* C6: logloss returns the average over the first n_iters draws of the loss
\* of the hard predictions (1 iff dot >= 0), so it is a function of the
\* number of misclassified pairs: least at 0 and strictly growing with it.
LossesFollowCounts(wo, wn) ==
  /\ oldll = LossOfCount(wo, n_iters)
  /\ newll = LossOfCount(wn, n_iters)
  /\ wo = 0 => oldll = <<RZero, ROfInt(1)>>
  /\ wo = wn => oldll = newll
  /\ wo < wn => LossLess(oldll, newll)
  /\ wn < wo => LossLess(newll, oldll)

C6_LoglossAverages ==
  /\ PostprocessOk =>
       LossesFollowCounts(Cardinality(Misclassified(sample, n_iters)),
                          Cardinality(Misclassified(out_sample, n_iters)))
  /\ (lastCall = "logloss" /\ status = "ok" /\ llRows > n_iters) =>
       llValue = ExpectedLoss(sample, n_iters)

C6_Witness ==
  /\ PostprocessOk
  /\ Cardinality(Misclassified(sample, n_iters))
       < Cardinality(Misclassified(out_sample, n_iters))
  /\ \E m \in 1..n_iters, i \in 1..test_size :
        Dot(sample[m], ToRatV(X_test[i])) = RZero

\* C7: the adjusted sample has the shape of the input sample.
C7_SameShape ==
  PostprocessOk =>
     /\ Len(out_sample) = Len(sample)
     /\ \A i \in 1..Len(sample) : Len(out_sample[i]) = Len(sample[i])

C7_Witness ==
  /\ PostprocessOk
  /\ Len(sample) = n_iters
  /\ Len(out_sample) >= 3
  /\ \A i \in 1..Len(out_sample) : Len(out_sample[i]) = d

Orders == {o \in [1..d -> 1..d] : \A p, q \in 1..d : p # q => o[p] # o[q]}

PassesIn(order) ==
  RunPasses(order, InitLocals(sample), sample, logpost_sample, n_iters,
            Mean0(sample), Mean0(logpost_sample), NpCov(logpost_sample))

SameOutcome(st) ==
  /\ st.status = status
  /\ status = "ok" => st.out = out_sample

OnlyColumn(j, one) ==
  \A i \in 1..Len(sample) : \A k \in 1..d :
     /\ k # j => one[i][k] = RZero
     /\ k = j => one[i][k] = out_sample[i][k]

====
